---------------------------- MODULE Spec2Model ----------------------------
(***************************************************************************)
(* A model of the dispatch planner's core: the weekly driver auto-         *)
(* assignment (services/auto_assignment.py, api/v1/assignments.py), the     *)
(* tanker compatibility validator and the conflict detector                 *)
(* (services/validation.py) and the trip endpoints (api/v1/schedules.py).   *)
(*                                                                         *)
(* Dates are Python date ordinals (date.toordinal()): ordinal 1 is a       *)
(* Monday, so ordinal 6 is a Saturday.  Times of day are minutes since     *)
(* midnight.  Row ids start at 1; None (a NULL id) is 0.                    *)
(***************************************************************************)
EXTENDS Integers, Sequences, FiniteSets, TLC

VARIABLES
    assignments,      \* committed weekly_driver_assignments rows
    run,              \* per request worker: the auto_assign call it is executing
    pending,          \* per request worker: rows flushed in its open transaction
    trips,            \* committed trips rows
    daily_schedules,  \* committed daily_schedules rows
    next_trip_id,     \* the trips.id sequence
    v_in,             \* validator inputs  (trip, tanker, customer)
    v_out             \* ValidationResult returned for v_in

vars == <<assignments, run, pending, trips, daily_schedules, next_trip_id, v_in, v_out>>
assignVars == <<assignments, run, pending>>
tripVars == <<trips, daily_schedules, next_trip_id>>
valVars == <<v_in, v_out>>

\* A nullable id column or Optional[int] field holding no id.
None == 0

(***************************************************************************)
(* Bounds of the model.                                                    *)
(***************************************************************************)
NumDrivers == 3
NumGroups == 3

Drivers == 1..NumDrivers
Groups == 1..NumGroups
\* The request workers that may run auto_assign at the same time.
Runners == {1, 2}

\* Dates a request may carry: two Saturdays (6, 13), a Wednesday and a Friday.
RequestDates == {6, 10, 13, 19}
\* min_rest_hours values a request may carry (schema: 8..24).
MinRestChoices == {8, 12}

(***************************************************************************)
(* Week arithmetic.                                                        *)
(***************************************************************************)
\* date.weekday(): Monday = 0 ... Sunday = 6.
weekday(d) == (d + 6) % 7

get_week_startMonday(d) == d - weekday(d)

get_week_start(d) == d - ((weekday(d) + 2) % 7)

\* week_dates = [week_start + timedelta(days=i) for i in range(7)]
week_dates(week_start) == [i \in 1..7 |-> week_start + (i - 1)]

(***************************************************************************)
(* Reference data the assignment engine reads: drivers, their calendars,   *)
(* trip groups and their templates.  No modelled operation writes them.    *)
(***************************************************************************)
\* Driver.is_active: the last driver has been deactivated.
driver_is_active(d) == d # NumDrivers

\* DriverSchedule.status of driver d on a date, "none" when there is no row.
\* Driver 1 has no row on Fridays; driver 2 is off on the Tuesday of the
\* second week; every other day is a working day.
driver_schedule(d, date) ==
    IF d = 1 /\ (weekday(date) + 2) % 7 = 6 THEN "none"
    ELSE IF d = 2 /\ date = 16 THEN "off"
    ELSE "working"

\* TripGroup.is_active: the last group has been deactivated (soft delete).
group_is_active(g) == g # NumGroups

\* The weekly_templates table (times of day in minutes).  Template 1 is a
\* Saturday 08:00-16:00 delivery; templates 2 and 3 are a Saturday
\* 14:00-22:00 and a Sunday 06:00-12:00 delivery (an 8 hour rest gap);
\* template 4 is a deactivated Sunday 01:00-05:00 delivery.
weekly_templates ==
    { [id |-> 1, customer_id |-> 1, day_of_week |-> 0, start_time |-> 480,
       end_time |-> 960, tanker_id |-> 1, fuel_blend_id |-> 1, volume |-> 2000,
       is_active |-> TRUE],
      [id |-> 2, customer_id |-> 1, day_of_week |-> 0, start_time |-> 840,
       end_time |-> 1320, tanker_id |-> 1, fuel_blend_id |-> None, volume |-> 4000,
       is_active |-> TRUE],
      [id |-> 3, customer_id |-> 2, day_of_week |-> 1, start_time |-> 360,
       end_time |-> 720, tanker_id |-> None, fuel_blend_id |-> None, volume |-> 2000,
       is_active |-> TRUE],
      [id |-> 4, customer_id |-> 2, day_of_week |-> 1, start_time |-> 60,
       end_time |-> 300, tanker_id |-> 2, fuel_blend_id |-> None, volume |-> 2000,
       is_active |-> FALSE] }

\* The trip_group_templates association: group 2 holds templates 2, 3 and 4,
\* every other group holds template 1.
trip_group_templates(g) == IF g = 2 THEN {2, 3, 4} ELSE {1}

\* TripGroup.templates
group_templates(g) == { t \in weekly_templates : t.id \in trip_group_templates(g) }

(***************************************************************************)
(* The weekly_driver_assignments table.                                    *)
(***************************************************************************)
Assignment(g, d, w, by) ==
    [trip_group_id |-> g, driver_id |-> d, week_start_date |-> w, assigned_by |-> by]

\* The editor a request worker acts for; manual operations act for editor 0.
ManualEditor == 0

UniqueViolationGroupOnly(rows, a) ==
    \E b \in rows :
        /\ b.week_start_date = a.week_start_date
        /\ b.trip_group_id = a.trip_group_id

\* unique_group_week and unique_driver_week: inserting (or changing a row to)
\* a among rows violates a uniqueness constraint.
UniqueViolation(rows, a) ==
    \E b \in rows :
        /\ b.week_start_date = a.week_start_date
        /\ (b.trip_group_id = a.trip_group_id \/ b.driver_id = a.driver_id)

\* The INSERT of row a by worker r waits on another open transaction that
\* holds an uncommitted row with the same unique key.
WaitsFor(r, r2, a) == r2 # r /\ UniqueViolation(pending[r2], a)
Blocked(r, a) == \E r2 \in Runners : WaitsFor(r, r2, a)

RollbackKeepsRows(rows) == rows

\* get_db closes the session without a commit: the open transaction is
\* rolled back.  SessionClose(rows) is what the store keeps of the rows the
\* transaction had flushed: none.
SessionClose(rows) == {}

(***************************************************************************)
(* AutoAssignmentService                                                   *)
(***************************************************************************)
get_available_driversWholeWeek(wd) ==
    { d \in Drivers :
        /\ driver_is_active(d)
        /\ \A i \in 1..7 : driver_schedule(d, wd[i]) = "working" }

\* _get_available_drivers: active drivers WORKING on week_dates[:6].
get_available_drivers(wd) ==
    { d \in Drivers :
        /\ driver_is_active(d)
        /\ \A i \in 1..6 : driver_schedule(d, wd[i]) = "working" }

\* _calculate_hours_between, in minutes (the code divides by 60.0 and
\* compares with min_rest_hours; the comparison is the same on minutes).
calculate_minutes_between(end_time, start_time) == (24 * 60 - end_time) + start_time

SetMax(S) == CHOOSE x \in S : \A y \in S : y <= x
SetMin(S) == CHOOSE x \in S : \A y \in S : x <= y

\* _check_rest_gap
templates_by_day(templates, day) ==
    { t \in templates : t.is_active /\ t.day_of_week = day }

check_rest_gapSameDay(templates, min_rest_hours) ==
    \A day \in 0..5 :
        LET today == templates_by_day(templates, day)
            tomorrow == templates_by_day(templates, day)
        IN  (today # {} /\ tomorrow # {}) =>
                LET today_end == SetMax({ t.end_time : t \in today })
                    tomorrow_start == SetMin({ t.start_time : t \in tomorrow })
                IN  ~ (calculate_minutes_between(today_end, tomorrow_start)
                         < min_rest_hours * 60)

check_rest_gapInclusive(templates, min_rest_hours) ==
    \A day \in 0..5 :
        LET today == templates_by_day(templates, day)
            tomorrow == templates_by_day(templates, day + 1)
        IN  (today # {} /\ tomorrow # {}) =>
                LET today_end == SetMax({ t.end_time : t \in today })
                    tomorrow_start == SetMin({ t.start_time : t \in tomorrow })
                IN  ~ (calculate_minutes_between(today_end, tomorrow_start)
                         <= min_rest_hours * 60)

check_rest_gap(templates, min_rest_hours) ==
    \A day \in 0..5 :
        LET today == templates_by_day(templates, day)
            tomorrow == templates_by_day(templates, day + 1)
        IN  (today # {} /\ tomorrow # {}) =>
                LET today_end == SetMax({ t.end_time : t \in today })
                    tomorrow_start == SetMin({ t.start_time : t \in tomorrow })
                IN  ~ (calculate_minutes_between(today_end, tomorrow_start)
                         < min_rest_hours * 60)

\* TripGroupBasicResponse: pydantic raises a ValidationError unless every
\* required field is given.
TripGroupBasicResponseFields == {"id", "name", "day_of_week", "day_name", "description"}
TripGroupBasicResponseOk(given) == TripGroupBasicResponseFields \subseteq given

\* The keyword arguments auto_assign passes to TripGroupBasicResponse.
AutoAssignGroupFields == {"id", "name", "description"}

LiveRunAlways(r) == TRUE

\* `not dry_run`
LiveRun(r) == ~ run[r].dry_run

UnassignedGroupsNoFilter(trip_groups, already) == trip_groups

\* unassigned_groups: the active groups with no row for the week.
UnassignedGroups(trip_groups, already) == { g \in trip_groups : g \notin already }

\* eligible_drivers = [d for d in available_drivers if d.id not in
\* assigned_driver_ids and self._check_rest_gap(group, min_rest_hours)]
eligible_drivers(available_drivers, assigned_driver_ids, templates, min_rest_hours) ==
    { d \in available_drivers :
        /\ d \notin assigned_driver_ids
        /\ check_rest_gap(templates, min_rest_hours) }

\* eligible_drivers for a group
EligibleDrivers(r, g) ==
    eligible_drivers(run[r].available_drivers, run[r].assigned_driver_ids,
                     group_templates(g), run[r].min_rest_hours)

\* The reason recorded for a group with no eligible driver.
UnassignedReason(available, eligible) ==
    IF available = {} THEN "All drivers are already assigned or unavailable"
    ELSE IF eligible = {} THEN "Remaining drivers do not meet rest gap requirements"
    ELSE "No available drivers"

IdleRun ==
    [pc |-> "idle", week_start |-> 0, min_rest_hours |-> 0, dry_run |-> FALSE,
     already_assigned_group_ids |-> {}, already_assigned_driver_ids |-> {},
     unassigned_groups |-> {}, available_drivers |-> {}, assigned_driver_ids |-> {},
     group |-> None, eligible_drivers |-> {},
     assignments_created |-> <<>>, unassigned_results |-> {}, reason |-> "none",
     inflight |-> None, outcome |-> "none"]

existing_assignmentsNone(week_start) == {}

\* existing_assignments: the committed rows of the week.
existing_assignments(week_start) ==
    { a \in assignments : a.week_start_date = week_start }

\* auto_assign_drivers and auto_assign up to the loop: normalise the date,
\* read the groups, the week's rows and the available drivers.
AutoAssignStart(r, request_date, min_rest_hours, dry_run) ==
    /\ run[r].pc = "idle"
    /\ LET week_start == get_week_start(request_date)
           trip_groups == { g \in Groups : group_is_active(g) }
           existing == existing_assignments(week_start)
           already_groups == { a.trip_group_id : a \in existing }
           already_drivers == { a.driver_id : a \in existing }
       IN  run' = [run EXCEPT ![r] =
                [IdleRun EXCEPT
                    !.pc = "loop",
                    !.week_start = week_start,
                    !.min_rest_hours = min_rest_hours,
                    !.dry_run = dry_run,
                    !.already_assigned_group_ids = already_groups,
                    !.already_assigned_driver_ids = already_drivers,
                    !.unassigned_groups = UnassignedGroups(trip_groups, already_groups),
                    !.available_drivers =
                        { d \in get_available_drivers(week_dates(week_start)) :
                            d \notin already_drivers },
                    !.assigned_driver_ids = already_drivers]]
    /\ UNCHANGED <<assignments, pending>>
    /\ UNCHANGED <<tripVars, valVars>>

\* The request ends with an exception: get_db closes the session.
Raise(r, locals, exc) ==
    /\ run' = [run EXCEPT ![r] =
            [locals EXCEPT !.pc = "failed", !.outcome = exc, !.inflight = None]]
    /\ assignments' = assignments \cup SessionClose(pending[r])
    /\ pending' = [pending EXCEPT ![r] = {}]

\* One iteration of `for group in unassigned_groups` up to the INSERT.  The
\* store's iteration order is unspecified: any remaining group may be next.
AutoAssignPick(r) ==
    /\ run[r].pc = "loop"
    /\ \E g \in run[r].unassigned_groups :
        LET eligible == EligibleDrivers(r, g)
            iter == [run[r] EXCEPT !.group = g, !.eligible_drivers = eligible,
                                   !.unassigned_groups = @ \ {g}]
        IN
        IF eligible # {}
        THEN \E d \in eligible :    \* random.choice(eligible_drivers)
                LET chosen == [iter EXCEPT !.assigned_driver_ids = @ \cup {d}] IN
                IF LiveRun(r)
                THEN /\ run' = [run EXCEPT ![r] =
                            [chosen EXCEPT
                                !.pc = "insert",
                                !.inflight = Assignment(g, d, run[r].week_start, r)]]
                     /\ UNCHANGED <<assignments, pending>>
                ELSE IF TripGroupBasicResponseOk(AutoAssignGroupFields)
                THEN /\ run' = [run EXCEPT ![r] =
                            [chosen EXCEPT !.assignments_created =
                                Append(@, Assignment(g, d, run[r].week_start, None))]]
                     /\ UNCHANGED <<assignments, pending>>
                ELSE Raise(r, chosen, "ValidationError")
        ELSE LET reason == UnassignedReason(run[r].available_drivers, eligible)
                 chosen == [iter EXCEPT !.reason = reason]
             IN  IF TripGroupBasicResponseOk(AutoAssignGroupFields)
                 THEN /\ run' = [run EXCEPT ![r] =
                            [chosen EXCEPT !.unassigned_results = @ \cup
                                {[trip_group |-> g, reason |-> reason]}]]
                      /\ UNCHANGED <<assignments, pending>>
                 ELSE Raise(r, chosen, "ValidationError")
    /\ UNCHANGED <<tripVars, valVars>>

\* Two workers each wait for a row the other holds: the store aborts one.
Deadlocked(r) ==
    \E r2 \in Runners :
        /\ run[r2].pc = "insert"
        /\ WaitsFor(r, r2, run[r].inflight)
        /\ WaitsFor(r2, r, run[r2].inflight)

\* db.add(assignment); db.flush(); db.refresh(assignment); append.
AutoAssignFlush(r) ==
    /\ run[r].pc = "insert"
    /\ LET a == run[r].inflight IN
        IF UniqueViolation(assignments \cup pending[r], a)
        THEN Raise(r, run[r], "IntegrityError")
        ELSE IF Deadlocked(r)
        THEN Raise(r, run[r], "DeadlockDetected")
        ELSE /\ ~ Blocked(r, a)
             /\ pending' = [pending EXCEPT ![r] = @ \cup {a}]
             /\ run' = [run EXCEPT
                    ![r].pc = "loop",
                    ![r].inflight = None,
                    ![r].assignments_created = Append(@, a)]
             /\ UNCHANGED assignments
    /\ UNCHANGED <<tripVars, valVars>>

\* After the loop: commit on a live run, then build and return the response.
AutoAssignReturn(r) ==
    /\ run[r].pc = "loop"
    /\ run[r].unassigned_groups = {}
    /\ IF LiveRun(r)
       THEN /\ assignments' = assignments \cup pending[r]
            /\ pending' = [pending EXCEPT ![r] = {}]
       ELSE UNCHANGED <<assignments, pending>>
    /\ run' = [run EXCEPT ![r].pc = "returned", ![r].outcome = "AutoAssignResponse"]
    /\ UNCHANGED <<tripVars, valVars>>

\* The response has been sent; the worker is free for the next request.
AutoAssignDone(r) ==
    /\ run[r].pc \in {"returned", "failed"}
    /\ run' = [run EXCEPT ![r] = IdleRun]
    /\ assignments' = assignments \cup SessionClose(pending[r])
    /\ pending' = [pending EXCEPT ![r] = {}]
    /\ UNCHANGED <<tripVars, valVars>>

\* The HTTP status of an auto-assign request: a returned response is a 200;
\* auto_assign_drivers has no except clause, so any exception reaches
\* generic_exception_handler.
AutoAssignHttpStatus(outcome) ==
    IF outcome = "AutoAssignResponse" THEN 200 ELSE 500

(***************************************************************************)
(* Manual assignment endpoints: each is one statement and a commit.        *)
(***************************************************************************)
\* get_weekly_assignments: the response's week_start_date, assignments,
\* unassigned_groups and available_drivers.  It writes nothing.
get_weekly_assignments(week_start) ==
    LET actual_week_start == get_week_start(week_start)
        rows == { a \in assignments : a.week_start_date = actual_week_start }
        assigned_group_ids == { a.trip_group_id : a \in rows }
        assigned_driver_ids == { a.driver_id : a \in rows }
    IN  [week_start_date |-> actual_week_start,
         assignments |-> rows,
         unassigned_groups |-> { g \in Groups : group_is_active(g)
                                                 /\ g \notin assigned_group_ids },
         available_drivers |-> { d \in Drivers : driver_is_active(d)
                                                  /\ d \notin assigned_driver_ids }]

create_assignment(request_date, g, d) ==
    /\ LET a == Assignment(g, d, get_week_start(request_date), ManualEditor) IN
        IF ~ group_is_active(g) \/ ~ driver_is_active(d)
        THEN UNCHANGED assignments                       \* 400
        ELSE IF UniqueViolation(assignments, a)
        THEN UNCHANGED assignments                       \* IntegrityError: rollback, 409
        ELSE /\ ~ Blocked(0, a)
             /\ assignments' = assignments \cup {a}
    /\ UNCHANGED <<run, pending>>
    /\ UNCHANGED <<tripVars, valVars>>

update_assignment(a, d) ==
    /\ a \in assignments
    /\ LET b == [a EXCEPT !.driver_id = d] IN
        IF ~ driver_is_active(d)
        THEN UNCHANGED assignments                       \* 400
        ELSE IF UniqueViolation(assignments \ {a}, b)
        THEN UNCHANGED assignments                       \* IntegrityError: rollback, 409
        ELSE /\ ~ Blocked(0, b)
             /\ assignments' = (assignments \ {a}) \cup {b}
    /\ UNCHANGED <<run, pending>>
    /\ UNCHANGED <<tripVars, valVars>>

delete_assignment(a) ==
    /\ a \in assignments
    /\ assignments' = assignments \ {a}
    /\ UNCHANGED <<run, pending>>
    /\ UNCHANGED <<tripVars, valVars>>

clear_week_assignments(request_date) ==
    /\ assignments' =
        { a \in assignments : a.week_start_date # get_week_start(request_date) }
    /\ UNCHANGED <<run, pending>>
    /\ UNCHANGED <<tripVars, valVars>>

(***************************************************************************)
(* The weekly assignment specification.                                    *)
(***************************************************************************)
Init ==
    /\ assignments = {}
    /\ run = [r \in Runners |-> IdleRun]
    /\ pending = [r \in Runners |-> {}]
    /\ trips = {}
    /\ daily_schedules = {}
    /\ next_trip_id = 1
    /\ v_in = <<>>
    /\ v_out = <<>>

AssignNext(workers, dates, rests, drys, manual_dates) ==
    \/ \E r \in workers, date \in dates, h \in rests, dry \in drys :
            AutoAssignStart(r, date, h, dry)
    \/ \E r \in workers : AutoAssignPick(r)
    \/ \E r \in workers : AutoAssignFlush(r)
    \/ \E r \in workers : AutoAssignReturn(r)
    \/ \E r \in workers : AutoAssignDone(r)
    \/ \E date \in manual_dates, g \in Groups, d \in Drivers :
            create_assignment(date, g, d)
    \/ \E a \in assignments, d \in Drivers : update_assignment(a, d)
    \/ \E a \in assignments : delete_assignment(a)
    \/ \E date \in manual_dates : clear_week_assignments(date)

\* One auto-assign worker, every request input, every manual operation.
Next == AssignNext({1}, RequestDates, MinRestChoices, BOOLEAN, RequestDates)

Spec == Init /\ [][Next]_vars

\* Two auto-assign workers running live for the same week, racing each
\* other and the manual operations (which also write a second week).
NextRace == AssignNext(Runners, {10}, {8}, {FALSE}, {10, 13})

SpecRace == Init /\ [][NextRace]_vars

(***************************************************************************)
(* Claims about the weekly assignment.                                     *)
(***************************************************************************)
Created(r) == { run[r].assignments_created[i] : i \in DOMAIN run[r].assignments_created }

\* C1: in every committed store state, for every week each driver appears in
\* at most one weekly_driver_assignments row and each trip group appears in
\* at most one row.
C1_UniquePerWeek ==
    \A a, b \in assignments :
        (/\ a.week_start_date = b.week_start_date
         /\ (a.trip_group_id = b.trip_group_id \/ a.driver_id = b.driver_id))
        => a = b

\* A week that holds a manually created row next to an auto-assigned one.
C1_Witness ==
    \E a, b \in assignments :
        /\ a.week_start_date = b.week_start_date
        /\ a.assigned_by = ManualEditor
        /\ b.assigned_by \in Runners

\* C2: no step of a dry run changes the committed rows or flushes a row.
C2_DryRunFrame ==
    [][\A r \in Runners :
          (run'[r] # run[r] /\ (run[r].dry_run \/ run'[r].dry_run))
          => (assignments' = assignments /\ pending' = pending)]_vars

\* A dry run has run to its end over a store that holds rows.
C2_Witness ==
    \E r \in Runners :
        /\ run[r].dry_run
        /\ run[r].pc \in {"returned", "failed"}
        /\ assignments # {}

\* C7: after a live run failed to persist a row, none of the rows the run
\* had flushed is in the committed store and its transaction holds nothing.
C7_FailedRunLeavesNothing ==
    \A r \in Runners :
        run[r].outcome \in {"IntegrityError", "DeadlockDetected"}
        => (pending[r] = {} /\ Created(r) \cap assignments = {})

\* A run hit a uniqueness violation after it had flushed a row.
C7_Witness ==
    \E r \in Runners :
        /\ run[r].outcome = "IntegrityError"
        /\ Len(run[r].assignments_created) >= 1

\* C8 (as claimed): a live run that hits a uniqueness violation ends as a
\* conflict error (409), not as an unhandled exception.
C8_ConflictSurfaced ==
    \A r \in Runners :
        run[r].outcome = "IntegrityError" => AutoAssignHttpStatus(run[r].outcome) = 409

\* C9 (as claimed): a run does not raise in an iteration that found no
\* eligible driver for its group.
C9_NoRaiseWhenUnassignable ==
    \A r \in Runners :
        (run[r].group # None /\ run[r].eligible_drivers = {}) => run[r].pc # "failed"

\* C10: the entries recorded under `created` have pairwise distinct drivers
\* and pairwise distinct groups, and none of them was already assigned for
\* the week when the run read the store.
C10_CreatedDistinct ==
    \A r \in Runners :
        LET c == run[r].assignments_created IN
        /\ \A i, j \in DOMAIN c :
              i # j => (c[i].driver_id # c[j].driver_id
                        /\ c[i].trip_group_id # c[j].trip_group_id)
        /\ \A i \in DOMAIN c :
              /\ c[i].driver_id \notin run[r].already_assigned_driver_ids
              /\ c[i].trip_group_id \notin run[r].already_assigned_group_ids

\* A run has recorded two assignments.
C10_Witness == \E r \in Runners : Len(run[r].assignments_created) >= 2


(***************************************************************************)
(* The trip validation service.                                            *)
(***************************************************************************)
\* enum DeliveryType, enum CustomerType, enum TankerStatus
DeliveryType == {"bulk", "mobile", "both"}
CustomerType == {"bulk", "mobile"}
TankerStatus == {"active", "maintenance", "inactive"}

\* Ids of the fuel_blends and emirates reference tables.
FuelBlendIds == {1, 2}
EmirateIds == {1, 2}

\* Tanker capacities and trip volumes, in litres.
Capacities == {3000, 5000}
Volumes == {2000, 3000, 4000}

\* Tanker.supports_blend, Tanker.covers_emirate
supports_blend(tanker, blend_id) == \E b \in tanker.fuel_blends : b = blend_id
covers_emirate(tanker, emirate_id) == \E e \in tanker.emirates : e = emirate_id

can_deliver_to_customer_typeExact(tanker, customer_type) ==
    tanker.delivery_type = customer_type

\* Tanker.can_deliver_to_customer_type
can_deliver_to_customer_type(tanker, customer_type) ==
    IF tanker.delivery_type = "both" THEN TRUE
    ELSE tanker.delivery_type = customer_type

\* dataclass ValidationError; every entry the service builds names the
\* field tanker_id.
ValidationError(code) == [code |-> code, field |-> "tanker_id"]

\* dataclass ValidationResult
ValidationResult(is_valid, errors, warnings) ==
    [is_valid |-> is_valid, errors |-> errors, warnings |-> warnings]

\* errors.append(..) under a condition: the list grows by one entry or stays.
AppendIf(list, cond, code) == IF cond THEN Append(list, ValidationError(code)) ELSE list

validate_tanker_assignmentFirstOnly(trip, tanker, customer) ==
    LET e1 == AppendIf(<<>>, tanker.max_capacity < trip.volume, "INSUFFICIENT_CAPACITY")
        e2 == AppendIf(e1, e1 = <<>> /\ trip.fuel_blend_id # None
                           /\ ~ supports_blend(tanker, trip.fuel_blend_id),
                       "INCOMPATIBLE_FUEL_BLEND")
        e3 == AppendIf(e2, e2 = <<>> /\ customer.emirate_id # None
                           /\ ~ covers_emirate(tanker, customer.emirate_id),
                       "EMIRATE_NOT_COVERED")
        errors == AppendIf(e3, e3 = <<>>
                           /\ ~ can_deliver_to_customer_type(tanker, customer.customer_type),
                           "INCOMPATIBLE_DELIVERY_TYPE")
        warnings == AppendIf(<<>>, errors = <<>> /\ tanker.status # "active",
                             "TANKER_NOT_ACTIVE")
    IN  IF errors # <<>> THEN ValidationResult(FALSE, errors, warnings)
        ELSE ValidationResult(TRUE, <<>>, warnings)

\* TripValidationService.validate_tanker_assignment: the four checks in the
\* order of the code, each appending to errors, then the status warning.
\* `if trip.fuel_blend_id:` and `if customer.emirate_id:` skip a NULL id.
validate_tanker_assignment(trip, tanker, customer) ==
    LET e1 == AppendIf(<<>>, tanker.max_capacity < trip.volume, "INSUFFICIENT_CAPACITY")
        e2 == AppendIf(e1, trip.fuel_blend_id # None
                           /\ ~ supports_blend(tanker, trip.fuel_blend_id),
                       "INCOMPATIBLE_FUEL_BLEND")
        e3 == AppendIf(e2, customer.emirate_id # None
                           /\ ~ covers_emirate(tanker, customer.emirate_id),
                       "EMIRATE_NOT_COVERED")
        errors == AppendIf(e3, ~ can_deliver_to_customer_type(tanker, customer.customer_type),
                           "INCOMPATIBLE_DELIVERY_TYPE")
        warnings == AppendIf(<<>>, tanker.status # "active", "TANKER_NOT_ACTIVE")
    IN  IF errors # <<>> THEN ValidationResult(FALSE, errors, warnings)
        ELSE ValidationResult(TRUE, <<>>, warnings)

(***************************************************************************)
(* The validation specification: one call of the validator on every trip,  *)
(* tanker and customer built from the sets above.                          *)
(***************************************************************************)
InitValidate ==
    /\ assignments = {}
    /\ run = [r \in Runners |-> IdleRun]
    /\ pending = [r \in Runners |-> {}]
    /\ trips = {}
    /\ daily_schedules = {}
    /\ next_trip_id = 1
    /\ \E volume \in Volumes, blend \in FuelBlendIds \cup {None, 3},
          capacity \in Capacities, blends \in SUBSET FuelBlendIds,
          emirates \in SUBSET EmirateIds, delivery_type \in DeliveryType,
          status \in TankerStatus, emirate_id \in EmirateIds \cup {None},
          customer_type \in CustomerType :
            v_in = [trip |-> [volume |-> volume, fuel_blend_id |-> blend],
                    tanker |-> [max_capacity |-> capacity, fuel_blends |-> blends,
                                emirates |-> emirates, delivery_type |-> delivery_type,
                                status |-> status],
                    customer |-> [emirate_id |-> emirate_id,
                                  customer_type |-> customer_type]]
    /\ v_out = <<>>

ValidateAssignment ==
    /\ v_in # <<>>
    /\ v_out = <<>>
    /\ v_out' = validate_tanker_assignment(v_in.trip, v_in.tanker, v_in.customer)
    /\ UNCHANGED <<v_in, assignVars, tripVars>>

NextValidate == ValidateAssignment

SpecValidate == InitValidate /\ [][NextValidate]_vars


(***************************************************************************)
(* Claims about the trip validation service.                               *)
(***************************************************************************)
\* C3: the validator answers is_valid = TRUE exactly when the tanker's
\* capacity is at least the trip's volume, the trip has no fuel blend or the
\* tanker supports it, the customer has no emirate or the tanker covers it,
\* and the tanker's delivery type is `both` or equals the customer's type;
\* the answer is the same for every operational status of the tanker.
C3_ValidIff ==
    v_out # <<>> =>
        /\ v_out.is_valid <=>
              /\ v_in.tanker.max_capacity >= v_in.trip.volume
              /\ (v_in.trip.fuel_blend_id = None
                    \/ v_in.trip.fuel_blend_id \in v_in.tanker.fuel_blends)
              /\ (v_in.customer.emirate_id = None
                    \/ v_in.customer.emirate_id \in v_in.tanker.emirates)
              /\ (v_in.tanker.delivery_type = "both"
                    \/ v_in.tanker.delivery_type = v_in.customer.customer_type)
        /\ v_out.is_valid <=> (v_out.errors = <<>>)
        /\ \A s \in TankerStatus :
              validate_tanker_assignment(v_in.trip, [v_in.tanker EXCEPT !.status = s],
                                         v_in.customer).is_valid = v_out.is_valid

\* A tanker under maintenance that delivers both ways is found valid for a
\* trip with a blend and a customer with an emirate.
C3_Witness ==
    /\ v_out # <<>>
    /\ v_out.is_valid
    /\ v_in.tanker.status = "maintenance"
    /\ v_in.tanker.delivery_type = "both"
    /\ v_in.trip.fuel_blend_id # None
    /\ v_in.customer.emirate_id # None

ErrorCount(code) ==
    Cardinality({ i \in DOMAIN v_out.errors : v_out.errors[i].code = code })

\* C4: the validator evaluates every check: errors holds exactly one entry
\* for each violated check among INSUFFICIENT_CAPACITY,
\* INCOMPATIBLE_FUEL_BLEND, EMIRATE_NOT_COVERED and
\* INCOMPATIBLE_DELIVERY_TYPE and none for a satisfied check, and warnings
\* holds TANKER_NOT_ACTIVE exactly when the tanker's status is not active,
\* with or without errors.
C4_AllChecksReported ==
    v_out # <<>> =>
        /\ ErrorCount("INSUFFICIENT_CAPACITY") =
              (IF v_in.tanker.max_capacity < v_in.trip.volume THEN 1 ELSE 0)
        /\ ErrorCount("INCOMPATIBLE_FUEL_BLEND") =
              (IF v_in.trip.fuel_blend_id # None
                  /\ v_in.trip.fuel_blend_id \notin v_in.tanker.fuel_blends
               THEN 1 ELSE 0)
        /\ ErrorCount("EMIRATE_NOT_COVERED") =
              (IF v_in.customer.emirate_id # None
                  /\ v_in.customer.emirate_id \notin v_in.tanker.emirates
               THEN 1 ELSE 0)
        /\ ErrorCount("INCOMPATIBLE_DELIVERY_TYPE") =
              (IF v_in.tanker.delivery_type # "both"
                  /\ v_in.tanker.delivery_type # v_in.customer.customer_type
               THEN 1 ELSE 0)
        /\ \A i \in DOMAIN v_out.errors :
              v_out.errors[i].code \in
                  {"INSUFFICIENT_CAPACITY", "INCOMPATIBLE_FUEL_BLEND",
                   "EMIRATE_NOT_COVERED", "INCOMPATIBLE_DELIVERY_TYPE"}
        /\ (\E i \in DOMAIN v_out.warnings :
                v_out.warnings[i].code = "TANKER_NOT_ACTIVE")
              <=> v_in.tanker.status # "active"
        /\ Len(v_out.warnings) <= 1

\* All four checks fail at once on an inactive tanker: four errors and the
\* warning are returned together.
C4_Witness ==
    /\ v_out # <<>>
    /\ Len(v_out.errors) = 4
    /\ Len(v_out.warnings) = 1
    /\ v_in.tanker.status = "inactive"


(***************************************************************************)
(* Daily schedules and trips.  A trip row carries its schedule's date in   *)
(* place of daily_schedule_id: schedule_date is unique per schedule.       *)
(* Times of day are minutes after midnight and never 00:00.                *)
(***************************************************************************)
\* The most trip rows ever inserted in one behaviour.
MaxTrips == 2

\* enum TripStatus
TripStatus == {"scheduled", "unassigned", "conflict", "completed", "cancelled"}

\* The tankers table: a 3000 l bulk tanker with a default driver and a
\* 5000 l tanker that delivers both ways.
tankers ==
    { [id |-> 1, max_capacity |-> 3000, delivery_type |-> "bulk", status |-> "active",
       is_active |-> TRUE, default_driver_id |-> 1, fuel_blends |-> {1}, emirates |-> {1}],
      [id |-> 2, max_capacity |-> 5000, delivery_type |-> "both", status |-> "active",
       is_active |-> TRUE, default_driver_id |-> None, fuel_blends |-> {1, 2},
       emirates |-> {1, 2}] }

\* The customers table: a bulk customer with an emirate and a default
\* blend, a mobile customer with neither.
customers ==
    { [id |-> 1, customer_type |-> "bulk", emirate_id |-> 1, fuel_blend_id |-> 2],
      [id |-> 2, customer_type |-> "mobile", emirate_id |-> None, fuel_blend_id |-> None] }

\* db.query(Tanker).filter(Tanker.id == id).first(), likewise for Customer
TankerById(id) == CHOOSE k \in tankers : k.id = id
CustomerById(id) == CHOOSE c \in customers : c.id = id

\* schedules.get_day_of_week: Saturday is 0
get_day_of_week(d) == (weekday(d) + 2) % 7

\* A row of the trips table.
Trip(id, schedule_date, template_id, customer_id, tanker_id, driver_id, start_time, end_time, fuel_blend_id, volume, status) ==
    [id |-> id, schedule_date |-> schedule_date, template_id |-> template_id,
     customer_id |-> customer_id, tanker_id |-> tanker_id, driver_id |-> driver_id,
     start_time |-> start_time, end_time |-> end_time,
     fuel_blend_id |-> fuel_blend_id, volume |-> volume, status |-> status]

\* CheckConstraint valid_trip_time
valid_trip_time(trip) == trip.end_time > trip.start_time

\* A row of the daily_schedules table.
DailySchedule(schedule_date, is_locked) ==
    [schedule_date |-> schedule_date, is_locked |-> is_locked]

\* db.query(DailySchedule).filter(schedule_date == date).first()
ScheduleExists(date) == \E s \in daily_schedules : s.schedule_date = date
ScheduleLockedIgnored(date) == FALSE
ScheduleLocked(date) == \E s \in daily_schedules : s.schedule_date = date /\ s.is_locked

\* "Get or create schedule": a new schedule starts unlocked.
GetOrCreateSchedule(date) ==
    IF ScheduleExists(date) THEN daily_schedules
    ELSE daily_schedules \cup {DailySchedule(date, FALSE)}

check_trip_conflictsTouching(rows, tanker_id, schedule_date, start_time, end_time, exclude_trip_id) ==
    LET query == { t \in rows : /\ t.schedule_date = schedule_date
                                /\ t.tanker_id = tanker_id
                                /\ t.status # "cancelled" }
        filtered == IF exclude_trip_id # None
                    THEN { t \in query : t.id # exclude_trip_id }
                    ELSE query
    IN  { t \in filtered : start_time <= t.end_time /\ t.start_time <= end_time }

\* TripValidationService.check_trip_conflicts over the trips table `rows`:
\* the query's three filters, the optional exclusion (`if exclude_trip_id:`),
\* then the overlap test on each row.
check_trip_conflicts(rows, tanker_id, schedule_date, start_time, end_time, exclude_trip_id) ==
    LET query == { t \in rows : /\ t.schedule_date = schedule_date
                                /\ t.tanker_id = tanker_id
                                /\ t.status # "cancelled" }
        filtered == IF exclude_trip_id # None
                    THEN { t \in query : t.id # exclude_trip_id }
                    ELSE query
    IN  { t \in filtered : start_time < t.end_time /\ t.start_time < end_time }

get_compatible_tankersAnyStatus(tanker_rows, customer, fuel_blend_id, volume) ==
    LET query == { k \in tanker_rows : /\ k.is_active
                                       /\ k.max_capacity >= volume }
    IN  { k \in query :
            /\ ~ (fuel_blend_id # None /\ ~ supports_blend(k, fuel_blend_id))
            /\ ~ (customer.emirate_id # None /\ ~ covers_emirate(k, customer.emirate_id))
            /\ can_deliver_to_customer_type(k, customer.customer_type) }

\* TripValidationService.get_compatible_tankers over the tankers table
\* `tanker_rows`: the query's three filters, then the three checks in Python.
get_compatible_tankers(tanker_rows, customer, fuel_blend_id, volume) ==
    LET query == { k \in tanker_rows : /\ k.is_active
                                       /\ k.status = "active"
                                       /\ k.max_capacity >= volume }
    IN  { k \in query :
            /\ ~ (fuel_blend_id # None /\ ~ supports_blend(k, fuel_blend_id))
            /\ ~ (customer.emirate_id # None /\ ~ covers_emirate(k, customer.emirate_id))
            /\ can_deliver_to_customer_type(k, customer.customer_type) }


(***************************************************************************)
(* Schedule and trip endpoints.  An endpoint that raises leaves the store  *)
(* as it was: the session is closed without a commit.                      *)
(***************************************************************************)
\* generate_schedule's template_to_driver[template.id]: the driver of a
\* weekly assignment whose group holds the template; the dict keeps the last
\* assignment the unordered query returned, so any of them.
TemplateDriverChoices(template, week_start) ==
    LET found == { a.driver_id : a \in { b \in assignments :
                        /\ b.week_start_date = week_start
                        /\ template.id \in trip_group_templates(b.trip_group_id) } }
    IN  IF found = {} THEN {None} ELSE found

\* Position of a template in order_by(start_time, priority).
TemplateRank(templates, template) ==
    Cardinality({ u \in templates : u.start_time < template.start_time })

generate_schedule(schedule_date, overwrite_existing) ==
    LET day_of_week == get_day_of_week(schedule_date)
        templates == { t \in weekly_templates :
                          t.day_of_week = day_of_week /\ t.is_active }
        week_start == get_week_start(schedule_date)
        kept == { t \in trips : t.schedule_date # schedule_date }
    IN  /\ IF ScheduleLocked(schedule_date)
              \/ (ScheduleExists(schedule_date) /\ ~ overwrite_existing)
           THEN UNCHANGED tripVars
           ELSE \E driver \in [templates -> Drivers \cup {None}] :
                  /\ next_trip_id + Cardinality(templates) - 1 <= MaxTrips
                  /\ \A t \in templates :
                        driver[t] \in TemplateDriverChoices(t, week_start)
                  /\ trips' = kept \cup
                        { Trip(next_trip_id + TemplateRank(templates, t), schedule_date,
                               t.id, t.customer_id, t.tanker_id, driver[t],
                               t.start_time, t.end_time, t.fuel_blend_id, t.volume,
                               IF t.tanker_id # None THEN "scheduled" ELSE "unassigned")
                          : t \in templates }
                  /\ daily_schedules' = GetOrCreateSchedule(schedule_date)
                  /\ next_trip_id' = next_trip_id + Cardinality(templates)
        /\ UNCHANGED <<assignVars, valVars>>

lock_schedule(schedule_date) ==
    /\ IF ScheduleExists(schedule_date)
       THEN daily_schedules' = { IF s.schedule_date = schedule_date
                                 THEN DailySchedule(schedule_date, TRUE) ELSE s
                                 : s \in daily_schedules }
       ELSE UNCHANGED daily_schedules
    /\ UNCHANGED <<trips, next_trip_id, assignVars, valVars>>

unlock_schedule(schedule_date) ==
    /\ IF ScheduleExists(schedule_date)
       THEN daily_schedules' = { IF s.schedule_date = schedule_date
                                 THEN DailySchedule(schedule_date, FALSE) ELSE s
                                 : s \in daily_schedules }
       ELSE UNCHANGED daily_schedules
    /\ UNCHANGED <<trips, next_trip_id, assignVars, valVars>>

\* create_trip: no check of the tanker against the trip; the insert fails
\* on valid_trip_time alone.
create_trip(schedule_date, trip_data) ==
    LET trip == Trip(next_trip_id, schedule_date, None, trip_data.customer_id,
                     trip_data.tanker_id, trip_data.driver_id, trip_data.start_time,
                     trip_data.end_time, trip_data.fuel_blend_id, trip_data.volume,
                     IF trip_data.tanker_id # None THEN "scheduled" ELSE "unassigned")
    IN  /\ IF ScheduleLocked(schedule_date) \/ ~ valid_trip_time(trip)
           THEN UNCHANGED tripVars
           ELSE /\ next_trip_id <= MaxTrips
                /\ trips' = trips \cup {trip}
                /\ daily_schedules' = GetOrCreateSchedule(schedule_date)
                /\ next_trip_id' = next_trip_id + 1
        /\ UNCHANGED <<assignVars, valVars>>

\* setattr(trip, field, value) for the fields the request sets.
PatchField(trip, update_data, field) ==
    IF field \in DOMAIN update_data THEN update_data[field] ELSE trip[field]

UpdatedTripKeepsStatus(trip, update_data) ==
    Trip(trip.id, trip.schedule_date, trip.template_id,
         PatchField(trip, update_data, "customer_id"),
         PatchField(trip, update_data, "tanker_id"),
         PatchField(trip, update_data, "driver_id"),
         PatchField(trip, update_data, "start_time"),
         PatchField(trip, update_data, "end_time"),
         PatchField(trip, update_data, "fuel_blend_id"),
         PatchField(trip, update_data, "volume"),
         PatchField(trip, update_data, "status"))

\* update_trip's changes to the row: every field the request sets, then
\* `if trip.tanker_id is None: trip.status = TripStatus.UNASSIGNED`.
UpdatedTrip(trip, update_data) ==
    LET set == Trip(trip.id, trip.schedule_date, trip.template_id,
                    PatchField(trip, update_data, "customer_id"),
                    PatchField(trip, update_data, "tanker_id"),
                    PatchField(trip, update_data, "driver_id"),
                    PatchField(trip, update_data, "start_time"),
                    PatchField(trip, update_data, "end_time"),
                    PatchField(trip, update_data, "fuel_blend_id"),
                    PatchField(trip, update_data, "volume"),
                    PatchField(trip, update_data, "status"))
    IN  IF set.tanker_id = None THEN [set EXCEPT !.status = "unassigned"] ELSE set

update_trip(trip, update_data) ==
    LET updated == UpdatedTrip(trip, update_data)
    IN  /\ trip \in trips
        /\ IF ScheduleLocked(trip.schedule_date) \/ ~ valid_trip_time(updated)
           THEN UNCHANGED trips
           ELSE trips' = (trips \ {trip}) \cup {updated}
        /\ UNCHANGED <<daily_schedules, next_trip_id, assignVars, valVars>>

assign_trip_responseNoConflictCheck(trip, tanker_id, driver_id) ==
    LET result == validate_tanker_assignment(trip, TankerById(tanker_id),
                                             CustomerById(trip.customer_id))
        with_tanker == IF tanker_id # None
                       THEN [trip EXCEPT !.tanker_id = tanker_id, !.status = "scheduled"]
                       ELSE trip
        assigned == IF driver_id # None
                    THEN [with_tanker EXCEPT !.driver_id = driver_id]
                    ELSE with_tanker
    IN  IF ScheduleLocked(trip.schedule_date)
        THEN [status_code |-> 400, trip |-> trip]
        ELSE IF tanker_id # None /\ ~ result.is_valid
        THEN [status_code |-> 400, trip |-> trip]
        ELSE [status_code |-> 200, trip |-> assigned]

\* assign_trip's answer and the row it leaves: 400 on a locked schedule or
\* a failed validation, 409 on a conflict, else the tanker (with status
\* SCHEDULED) and the driver are set, each only if the request names it.
assign_trip_response(trip, tanker_id, driver_id) ==
    LET result == validate_tanker_assignment(trip, TankerById(tanker_id),
                                             CustomerById(trip.customer_id))
        conflicts == check_trip_conflicts(trips, tanker_id, trip.schedule_date,
                                          trip.start_time, trip.end_time, trip.id)
        with_tanker == IF tanker_id # None
                       THEN [trip EXCEPT !.tanker_id = tanker_id, !.status = "scheduled"]
                       ELSE trip
        assigned == IF driver_id # None
                    THEN [with_tanker EXCEPT !.driver_id = driver_id]
                    ELSE with_tanker
    IN  IF ScheduleLocked(trip.schedule_date)
        THEN [status_code |-> 400, trip |-> trip]
        ELSE IF tanker_id # None /\ ~ result.is_valid
        THEN [status_code |-> 400, trip |-> trip]
        ELSE IF tanker_id # None /\ conflicts # {}
        THEN [status_code |-> 409, trip |-> trip]
        ELSE [status_code |-> 200, trip |-> assigned]

assign_trip(trip, tanker_id, driver_id) ==
    LET response == assign_trip_response(trip, tanker_id, driver_id)
    IN  /\ trip \in trips
        /\ IF response.status_code # 200
           THEN UNCHANGED trips
           ELSE trips' = (trips \ {trip}) \cup {response.trip}
        /\ UNCHANGED <<daily_schedules, next_trip_id, assignVars, valVars>>

delete_trip(trip) ==
    /\ trip \in trips
    /\ IF ScheduleLocked(trip.schedule_date)
       THEN UNCHANGED trips
       ELSE trips' = trips \ {trip}
    /\ UNCHANGED <<daily_schedules, next_trip_id, assignVars, valVars>>


\* create_on_demand_delivery up to db.add(trip): the rows the request may
\* add, none when it raises.  time(start_time.hour + 2, ..) raises
\* ValueError past 21:59; the tanker is the first compatible one without a
\* conflict in a query that has no ORDER BY, so any of them.
on_demand_trip(schedule_date, request, id) ==
    LET customer == CustomerById(request.customer_id)
        start_time == IF request.preferred_start_time # None
                      THEN request.preferred_start_time ELSE 8 * 60
        hour_ok == request.preferred_end_time # None \/ (start_time \div 60) + 2 <= 23
        end_time == IF request.preferred_end_time # None
                    THEN request.preferred_end_time ELSE start_time + 2 * 60
        compatible_tankers == get_compatible_tankers(tankers, customer,
                                                     request.fuel_blend_id, request.volume)
        free == IF request.auto_assign
                THEN { k \in compatible_tankers :
                         check_trip_conflicts(trips, k.id, schedule_date, start_time,
                                              end_time, None) = {} }
                ELSE {}
        fuel_blend_id == IF request.fuel_blend_id # None THEN request.fuel_blend_id
                         ELSE customer.fuel_blend_id
    IN  IF ScheduleLocked(schedule_date) \/ ~ hour_ok \/ ~ (end_time > start_time)
        THEN {}
        ELSE IF free # {}
        THEN { Trip(id, schedule_date, None, customer.id, assigned_tanker.id,
                    assigned_tanker.default_driver_id, start_time, end_time,
                    fuel_blend_id, request.volume, "scheduled")
               : assigned_tanker \in free }
        ELSE { Trip(id, schedule_date, None, customer.id, None, None, start_time,
                    end_time, fuel_blend_id, request.volume, "unassigned") }

create_on_demand_delivery(schedule_date, request) ==
    LET rows == on_demand_trip(schedule_date, request, next_trip_id)
    IN  /\ IF rows = {}
           THEN UNCHANGED tripVars
           ELSE /\ next_trip_id <= MaxTrips
                /\ \E trip \in rows : trips' = trips \cup {trip}
                /\ daily_schedules' = GetOrCreateSchedule(schedule_date)
                /\ next_trip_id' = next_trip_id + 1
        /\ UNCHANGED <<assignVars, valVars>>

(***************************************************************************)
(* The trips specification: the schedule and trip endpoints on one day,    *)
(* with the week's driver assignment of trip group 2 made or removed by    *)
(* hand.                                                                   *)
(***************************************************************************)
\* The schedule date of the requests: a Saturday.
TripDates == {6}

\* start_time and end_time pairs: two that touch at 16:00, one that
\* overlaps both, and one that ends before it starts.
TimeSlots == { <<480, 960>>, <<960, 1320>>, <<840, 1320>>, <<960, 480>> }

\* TripCreate request bodies: a bulk customer's trip on any tanker or none.
TripCreateInputs ==
    { [customer_id |-> 1, tanker_id |-> k, driver_id |-> None,
       start_time |-> slot[1], end_time |-> slot[2], fuel_blend_id |-> None,
       volume |-> v]
      : k \in {None, 1, 2}, slot \in TimeSlots, v \in {2000, 4000} }

\* TripUpdate request bodies: the fields each one sets.
TripUpdateInputs ==
    { [volume |-> 4000], [tanker_id |-> 1], [tanker_id |-> None],
      [status |-> "cancelled"], [end_time |-> 480] }

\* OnDemandDeliveryRequest bodies.
OnDemandInputs ==
    { [customer_id |-> c, fuel_blend_id |-> b, volume |-> v,
       preferred_start_time |-> st, preferred_end_time |-> en, auto_assign |-> auto]
      : c \in {1, 2}, b \in {None, 1}, v \in {2000, 4000}, st \in {None, 1320},
        en \in {None, 480}, auto \in BOOLEAN }

TripsNext(dates, creates, updates, tanker_ids, driver_ids, requests) ==
    \/ \E date \in dates, overwrite \in BOOLEAN : generate_schedule(date, overwrite)
    \/ \E date \in dates : lock_schedule(date)
    \/ \E date \in dates : unlock_schedule(date)
    \/ \E date \in dates, trip_data \in creates : create_trip(date, trip_data)
    \/ \E trip \in trips, update_data \in updates : update_trip(trip, update_data)
    \/ \E trip \in trips, tanker_id \in tanker_ids, driver_id \in driver_ids :
            assign_trip(trip, tanker_id, driver_id)
    \/ \E trip \in trips : delete_trip(trip)
    \/ \E date \in dates, request \in requests :
            create_on_demand_delivery(date, request)
    \/ \E date \in dates : create_assignment(date, 2, 1)
    \/ \E a \in assignments : delete_assignment(a)

NextTrips ==
    TripsNext(TripDates, TripCreateInputs, TripUpdateInputs, {None, 1, 2}, {None, 1},
              OnDemandInputs)

SpecTrips == Init /\ [][NextTrips]_vars


(***************************************************************************)
(* Claims about trips.                                                     *)
(***************************************************************************)
\* The requests put to the conflict check: a tanker, a date, a time range
\* and a trip to leave out (or none).
ProbeSlots == { slot \in TimeSlots : slot[1] < slot[2] } \cup { <<480, 600>> }
ProbeDates == TripDates \cup {7}
TripIds == 1..MaxTrips

Overlap(start1, end1, start2, end2) == start1 < end2 /\ start2 < end1

\* C5: the conflict check returns exactly the trips that are on the date,
\* use the tanker, are not cancelled, are not the excluded trip and satisfy
\* start < other.end and other.start < end; the overlap test gives the same
\* answer with the two intervals swapped, and two intervals that only touch
\* (end = other.start) never conflict.
C5_FindConflictsExact ==
    /\ \A k \in tankers, date \in ProbeDates, slot \in ProbeSlots,
          exclude \in TripIds \cup {None} :
            check_trip_conflicts(trips, k.id, date, slot[1], slot[2], exclude) =
                { t \in trips : /\ t.schedule_date = date
                                /\ t.tanker_id = k.id
                                /\ t.status # "cancelled"
                                /\ t.id # exclude
                                /\ Overlap(slot[1], slot[2], t.start_time, t.end_time) }
    /\ \A t \in trips, u \in trips :
          (/\ t # u
           /\ t.tanker_id # None /\ t.tanker_id = u.tanker_id
           /\ t.schedule_date = u.schedule_date
           /\ t.status # "cancelled" /\ u.status # "cancelled") =>
             /\ (u \in check_trip_conflicts(trips, t.tanker_id, t.schedule_date,
                                            t.start_time, t.end_time, t.id))
                  <=> (t \in check_trip_conflicts(trips, u.tanker_id, u.schedule_date,
                                                  u.start_time, u.end_time, u.id))
             /\ t.end_time = u.start_time =>
                  /\ u \notin check_trip_conflicts(trips, t.tanker_id, t.schedule_date,
                                                   t.start_time, t.end_time, t.id)
                  /\ t \notin check_trip_conflicts(trips, u.tanker_id, u.schedule_date,
                                                   u.start_time, u.end_time, u.id)

\* One tanker holds two live trips on one date that touch at 16:00; a
\* request from 14:00 to 22:00 conflicts with both, and with one of them
\* left out only with the other.
C5_Witness ==
    \E t \in trips, u \in trips :
        /\ t.tanker_id # None /\ t.tanker_id = u.tanker_id
        /\ t.schedule_date = u.schedule_date
        /\ t.status # "cancelled" /\ u.status # "cancelled"
        /\ t.end_time = u.start_time
        /\ check_trip_conflicts(trips, t.tanker_id, t.schedule_date, 840, 1320, None)
              = {t, u}
        /\ check_trip_conflicts(trips, t.tanker_id, t.schedule_date, 840, 1320, t.id)
              = {u}

\* C6: in every reachable state every trip that has a tanker has a volume
\* that does not exceed that tanker's capacity.
C6_CapacityCeiling ==
    \A t \in trips :
        t.tanker_id # None => t.volume <= TankerById(t.tanker_id).max_capacity


RestTemplate(day_of_week, start_time, end_time, is_active) ==
    [day_of_week |-> day_of_week, start_time |-> start_time, end_time |-> end_time,
     is_active |-> is_active]

RestTemplates ==
    { RestTemplate(0, 840, 1320, TRUE),   \* Saturday  14:00-22:00
      RestTemplate(0, 480, 960, TRUE),    \* Saturday  08:00-16:00
      RestTemplate(0, 60, 300, TRUE),     \* Saturday  01:00-05:00
      RestTemplate(1, 360, 720, TRUE),    \* Sunday    06:00-12:00
      RestTemplate(1, 600, 900, TRUE),    \* Sunday    10:00-15:00
      RestTemplate(1, 60, 300, FALSE),    \* Sunday    01:00-05:00, deactivated
      RestTemplate(3, 600, 1320, TRUE),   \* Tuesday   10:00-22:00
      RestTemplate(5, 600, 1320, TRUE),   \* Thursday  10:00-22:00
      RestTemplate(6, 300, 600, TRUE),    \* Friday    05:00-10:00
      RestTemplate(6, 840, 1380, TRUE) }  \* Friday    14:00-23:00

\* min_rest_hours values given to the function.
RestHours == {6, 8, 9, 12, 24}

InitRest ==
    /\ assignments = {}
    /\ run = [r \in Runners |-> IdleRun]
    /\ pending = [r \in Runners |-> {}]
    /\ trips = {}
    /\ daily_schedules = {}
    /\ next_trip_id = 1
    /\ \E templates \in SUBSET RestTemplates, h \in RestHours :
          v_in = [templates |-> templates, min_rest_hours |-> h]
    /\ v_out = <<>>

CheckRestGap ==
    /\ v_in # <<>>
    /\ v_out = <<>>
    /\ v_out' = [result |-> check_rest_gap(v_in.templates, v_in.min_rest_hours)]
    /\ UNCHANGED <<v_in, assignVars, tripVars>>

NextRest == CheckRestGap

SpecRest == InitRest /\ [][NextRest]_vars

\* The active templates of the checked group on a day.
ActiveOn(day) == { t \in v_in.templates : t.is_active /\ t.day_of_week = day }

\* C12: the rest gap check answers FALSE exactly when on some day d in 0..5
\* the group has an active template on d and on d+1 and the hours from the
\* latest end on d to the earliest start on d+1 are strictly fewer than
\* min_rest_hours; inactive templates count for nothing, Friday to Saturday
\* is never checked, and a gap of exactly min_rest_hours passes.
C12_RestGapIff ==
    v_out # <<>> =>
        (v_out.result = FALSE <=>
            \E d \in 0..5 :
                /\ ActiveOn(d) # {}
                /\ ActiveOn(d + 1) # {}
                /\ \E last \in ActiveOn(d), first \in ActiveOn(d + 1) :
                      /\ \A t \in ActiveOn(d) : t.end_time <= last.end_time
                      /\ \A t \in ActiveOn(d + 1) : first.start_time <= t.start_time
                      /\ ((24 * 60 - last.end_time) + first.start_time) \div 60
                            < v_in.min_rest_hours)

\* A group ending Saturday 22:00 and starting Sunday 06:00, with a
\* deactivated 01:00 Sunday template and a Friday 23:00 end before a
\* Saturday 01:00 start, passes for exactly 8 hours.
C12_Witness ==
    /\ v_out # <<>>
    /\ v_out.result = TRUE
    /\ v_in.min_rest_hours = 8
    /\ v_in.templates = { RestTemplate(0, 840, 1320, TRUE), RestTemplate(0, 60, 300, TRUE),
                          RestTemplate(1, 360, 720, TRUE), RestTemplate(1, 60, 300, FALSE),
                          RestTemplate(6, 840, 1380, TRUE) }


(***************************************************************************)
(* The compatible tankers specification: one call of                       *)
(* get_compatible_tankers on a tankers table of two rows.                  *)
(***************************************************************************)
\* A row of the tankers table.
Tanker(id, max_capacity, delivery_type, status, is_active, fuel_blends, emirates) ==
    [id |-> id, max_capacity |-> max_capacity, delivery_type |-> delivery_type,
     status |-> status, is_active |-> is_active, default_driver_id |-> None,
     fuel_blends |-> fuel_blends, emirates |-> emirates]

InitCompatible ==
    /\ assignments = {}
    /\ run = [r \in Runners |-> IdleRun]
    /\ pending = [r \in Runners |-> {}]
    /\ trips = {}
    /\ daily_schedules = {}
    /\ next_trip_id = 1
    /\ \E is_active \in BOOLEAN, status \in TankerStatus, delivery_type \in DeliveryType,
          blends \in {{}, {1}}, emirates \in {{}, {1}}, status2 \in {"active", "maintenance"},
          emirate_id \in EmirateIds \cup {None}, customer_type \in CustomerType,
          fuel_blend_id \in FuelBlendIds \cup {None}, volume \in Volumes :
            v_in = [tankers |-> { Tanker(1, 3000, delivery_type, status, is_active,
                                         blends, emirates),
                                  Tanker(2, 5000, "both", status2, TRUE,
                                         FuelBlendIds, EmirateIds) },
                    customer |-> [emirate_id |-> emirate_id,
                                  customer_type |-> customer_type],
                    fuel_blend_id |-> fuel_blend_id,
                    volume |-> volume]
    /\ v_out = <<>>

FindCompatibleTankers ==
    /\ v_in # <<>>
    /\ v_out = <<>>
    /\ v_out' = [tankers |-> get_compatible_tankers(v_in.tankers, v_in.customer,
                                                    v_in.fuel_blend_id, v_in.volume)]
    /\ UNCHANGED <<v_in, assignVars, tripVars>>

NextCompatible == FindCompatibleTankers

SpecCompatible == InitCompatible /\ [][NextCompatible]_vars

\* C13: the compatible tankers are exactly the tankers that are flagged
\* active, have status active, have capacity >= volume, support the blend
\* when one is requested, cover the customer's emirate when the customer
\* has one, and deliver `both` or the customer's type; each of them passes
\* the validator with no errors and no warnings for a trip of that volume
\* and blend.
C13_CompatibleExact ==
    v_out # <<>> =>
        /\ v_out.tankers =
              { k \in v_in.tankers :
                  /\ k.is_active
                  /\ k.status = "active"
                  /\ k.max_capacity >= v_in.volume
                  /\ (v_in.fuel_blend_id = None \/ v_in.fuel_blend_id \in k.fuel_blends)
                  /\ (v_in.customer.emirate_id = None
                        \/ v_in.customer.emirate_id \in k.emirates)
                  /\ (k.delivery_type = "both"
                        \/ k.delivery_type = v_in.customer.customer_type) }
        /\ \A k \in v_out.tankers :
              LET result == validate_tanker_assignment(
                                [volume |-> v_in.volume,
                                 fuel_blend_id |-> v_in.fuel_blend_id],
                                k, v_in.customer)
              IN  result.is_valid /\ result.errors = <<>> /\ result.warnings = <<>>

\* With a blend requested by a customer that has an emirate, the 3000 l
\* tanker is returned and the 5000 l tanker under maintenance is not.
C13_Witness ==
    /\ v_out # <<>>
    /\ v_in.fuel_blend_id # None
    /\ v_in.customer.emirate_id # None
    /\ { k.id : k \in v_out.tankers } = {1}
    /\ \E k \in v_in.tankers : k.id = 2 /\ k.status = "maintenance"



(***************************************************************************)
(* Trip status: the same endpoints driven by requests that move a trip     *)
(* through every status.                                                   *)
(***************************************************************************)
StatusCreateInputs ==
    { [customer_id |-> 1, tanker_id |-> k, driver_id |-> None,
       start_time |-> slot[1], end_time |-> slot[2], fuel_blend_id |-> None,
       volume |-> 2000]
      : k \in {None, 2}, slot \in {<<480, 960>>, <<840, 1320>>} }

\* TripUpdate bodies that set the status, clear the tanker, or both.
StatusUpdateInputs ==
    { [status |-> s] : s \in TripStatus } \cup
    { [tanker_id |-> None], [tanker_id |-> 2] } \cup
    { [tanker_id |-> None, status |-> s] : s \in {"scheduled", "completed"} }

StatusOnDemandInputs ==
    { [customer_id |-> 1, fuel_blend_id |-> None, volume |-> 2000,
       preferred_start_time |-> None, preferred_end_time |-> None,
       auto_assign |-> auto] : auto \in BOOLEAN }

NextStatus ==
    TripsNext(TripDates, StatusCreateInputs, StatusUpdateInputs, {None, 1, 2},
              {None, 2}, StatusOnDemandInputs)

SpecStatus == Init /\ [][NextStatus]_vars

\* C14: whenever a step leaves a trip that had a tanker without one, the
\* trip's status after the step is UNASSIGNED, whatever status it held and
\* whatever status the same update supplied.
C14_ClearedTankerUnassigned ==
    [][\A t \in trips : \A u \in trips' :
          (u.id = t.id /\ t.tanker_id # None /\ u.tanker_id = None)
              => u.status = "unassigned"]_vars

\* A trip generated from a template that names a tanker, now without a
\* tanker: only an update can have cleared it.
C14_Witness ==
    \E t \in trips :
        /\ t.template_id # None
        /\ \E w \in weekly_templates : w.id = t.template_id /\ w.tanker_id # None
        /\ t.tanker_id = None
        /\ t.status = "unassigned"

\* The assignment requests put to every stored trip.
AssignTankerIds == { k.id : k \in tankers }
AssignDriverIds == {None, 2}

\* C15: an assignment request that names a tanker is accepted, setting the
\* tanker and status SCHEDULED, only when the validator returns no errors
\* and the conflict check for the trip's date and time range, leaving out
\* the trip itself, returns no trips; when validation fails or a conflict
\* exists the request is rejected and the trip keeps its tanker, driver and
\* status.
C15_AssignOnlyWhenValidAndFree ==
    \A t \in trips, tanker_id \in AssignTankerIds, driver_id \in AssignDriverIds :
        LET response == assign_trip_response(t, tanker_id, driver_id)
            result == validate_tanker_assignment(t, TankerById(tanker_id),
                                                 CustomerById(t.customer_id))
            conflicts == check_trip_conflicts(trips, tanker_id, t.schedule_date,
                                              t.start_time, t.end_time, t.id)
        IN  /\ response.status_code = 200 =>
                /\ result.errors = <<>>
                /\ conflicts = {}
                /\ response.trip.tanker_id = tanker_id
                /\ response.trip.status = "scheduled"
            /\ (result.errors # <<>> \/ conflicts # {}) =>
                /\ response.status_code # 200
                /\ response.trip.tanker_id = t.tanker_id
                /\ response.trip.driver_id = t.driver_id
                /\ response.trip.status = t.status

\* A scheduled trip carrying the driver only an assignment request names,
\* next to a trip whose assignment to that trip's tanker is refused for a
\* conflict and one refused by the validator, on an unlocked schedule.
C15_Witness ==
    /\ \E t \in trips :
          t.driver_id = 2 /\ t.tanker_id # None /\ t.status = "scheduled"
    /\ \E u \in trips, tanker_id \in AssignTankerIds :
          /\ ~ ScheduleLocked(u.schedule_date)
          /\ assign_trip_response(u, tanker_id, 2).status_code = 409
    /\ \E u \in trips, tanker_id \in AssignTankerIds :
          /\ ~ ScheduleLocked(u.schedule_date)
          /\ assign_trip_response(u, tanker_id, 2).status_code = 400

\* C16: a trip whose status is COMPLETED or CANCELLED is terminal: no step
\* leaves it with status UNASSIGNED, SCHEDULED or CONFLICT.
C16_TerminalStatusKept ==
    [][\A t \in trips : \A u \in trips' :
          (u.id = t.id /\ t.status \in {"completed", "cancelled"})
              => u.status \notin {"unassigned", "scheduled", "conflict"}]_vars

\* C17: the conflict check never returns a trip whose status is COMPLETED
\* or CANCELLED, whatever tanker, date, time range and excluded trip it is
\* asked about.
C17_NoTerminalConflicts ==
    \A k \in tankers, date \in ProbeDates, slot \in ProbeSlots,
       exclude \in TripIds \cup {None} :
        \A t \in check_trip_conflicts(trips, k.id, date, slot[1], slot[2], exclude) :
            t.status \notin {"completed", "cancelled"}


(***************************************************************************)
(* Concurrent trip requests.  Two request workers run assign_trip and      *)
(* create_on_demand_delivery in two steps each: the reads and checks       *)
(* against the committed rows, which leave the changed or added row in     *)
(* the worker's session, and db.commit().  The store is PostgreSQL at its  *)
(* default isolation level (read committed); the trips table has one       *)
(* constraint, end_time > start_time.                                      *)
(***************************************************************************)
\* assign_trip up to db.commit(): a refused request ends here.
assign_trip_check(r, trip, tanker_id, driver_id) ==
    LET response == assign_trip_response(trip, tanker_id, driver_id)
    IN  /\ pending[r] = {}
        /\ trip \in trips
        /\ IF response.status_code # 200
           THEN UNCHANGED pending
           ELSE pending' = [pending EXCEPT ![r] = {response.trip}]
        /\ UNCHANGED <<assignments, run, tripVars, valVars>>

\* create_on_demand_delivery up to db.commit(); the new row has no id yet.
on_demand_check(r, schedule_date, request) ==
    LET rows == on_demand_trip(schedule_date, request, None)
    IN  /\ pending[r] = {}
        /\ IF rows = {}
           THEN UNCHANGED pending
           ELSE \E trip \in rows : pending' = [pending EXCEPT ![r] = {trip}]
        /\ UNCHANGED <<assignments, run, tripVars, valVars>>

trip_commitExclusion(r) ==
    /\ pending[r] # {}
    /\ \E p \in pending[r] :
          IF p.tanker_id # None
             /\ check_trip_conflicts(trips, p.tanker_id, p.schedule_date,
                                     p.start_time, p.end_time, p.id) # {}
          THEN UNCHANGED tripVars
          ELSE IF p.id = None
          THEN /\ next_trip_id <= MaxTrips
               /\ trips' = trips \cup {[p EXCEPT !.id = next_trip_id]}
               /\ next_trip_id' = next_trip_id + 1
               /\ UNCHANGED daily_schedules
          ELSE /\ trips' = { IF t.id = p.id
                             THEN [t EXCEPT !.tanker_id = p.tanker_id,
                                            !.driver_id = p.driver_id,
                                            !.status = p.status]
                             ELSE t : t \in trips }
               /\ UNCHANGED <<daily_schedules, next_trip_id>>
    /\ pending' = [pending EXCEPT ![r] = {}]
    /\ UNCHANGED <<assignments, run, valVars>>

\* db.commit() of either request: the INSERT of the new row, which takes
\* the next id, or the UPDATE of the tanker, driver and status of the row
\* with the trip's id.  Nothing is read again and no constraint looks at
\* other rows.
trip_commit(r) ==
    /\ pending[r] # {}
    /\ \E p \in pending[r] :
          IF p.id = None
          THEN /\ next_trip_id <= MaxTrips
               /\ trips' = trips \cup {[p EXCEPT !.id = next_trip_id]}
               /\ next_trip_id' = next_trip_id + 1
               /\ UNCHANGED daily_schedules
          ELSE /\ trips' = { IF t.id = p.id
                             THEN [t EXCEPT !.tanker_id = p.tanker_id,
                                            !.driver_id = p.driver_id,
                                            !.status = p.status]
                             ELSE t : t \in trips }
               /\ UNCHANGED <<daily_schedules, next_trip_id>>
    /\ pending' = [pending EXCEPT ![r] = {}]
    /\ UNCHANGED <<assignments, run, valVars>>

\* Trips created without a tanker, in two overlapping time ranges and one
\* that overlaps neither the 08:00-10:00 range of an on-demand request.
RaceCreateInputs ==
    { [customer_id |-> 1, tanker_id |-> None, driver_id |-> None,
       start_time |-> slot[1], end_time |-> slot[2], fuel_blend_id |-> None,
       volume |-> 2000]
      : slot \in {<<480, 960>>, <<840, 1320>>, <<960, 1320>>} }

RaceOnDemandInputs ==
    { [customer_id |-> 1, fuel_blend_id |-> None, volume |-> 2000,
       preferred_start_time |-> None, preferred_end_time |-> None,
       auto_assign |-> TRUE] }

NextTripRace ==
    \/ \E date \in TripDates, trip_data \in RaceCreateInputs : create_trip(date, trip_data)
    \/ \E r \in Runners, trip \in trips, tanker_id \in AssignTankerIds :
            assign_trip_check(r, trip, tanker_id, None)
    \/ \E r \in Runners, date \in { d \in TripDates : ScheduleExists(d) },
          request \in RaceOnDemandInputs :
            on_demand_check(r, date, request)
    \/ \E r \in Runners : trip_commit(r)

SpecTripRace == Init /\ [][NextTripRace]_vars

\* C18: no lock or store constraint rejects a commit: every commit of a
\* request that passed its conflict check leaves the request's trip in the
\* store with the tanker, time range and status the request gave it,
\* whatever the other worker committed after the check.
C18_CommitNeverRejected ==
    [][\A r \in Runners :
          (pending[r] # {} /\ pending'[r] = {}) =>
              \A p \in pending[r] : \E t \in trips' :
                  /\ p.id # None => t.id = p.id
                  /\ p.id = None => t.id \notin { u.id : u \in trips }
                  /\ t.tanker_id = p.tanker_id
                  /\ t.schedule_date = p.schedule_date
                  /\ t.start_time = p.start_time
                  /\ t.end_time = p.end_time
                  /\ t.status = p.status]_vars

\* The double booking: two stored trips, neither cancelled, on one tanker
\* and one date with overlapping time ranges, with no request in flight.
C18_Witness ==
    /\ \A r \in Runners : pending[r] = {}
    /\ \E t \in trips, u \in trips :
          /\ t.id # u.id
          /\ t.tanker_id # None
          /\ t.tanker_id = u.tanker_id
          /\ t.schedule_date = u.schedule_date
          /\ t.status # "cancelled" /\ u.status # "cancelled"
          /\ Overlap(t.start_time, t.end_time, u.start_time, u.end_time)


CandidateGroups(r) ==
    { g \in UnassignedGroups({ h \in Groups : group_is_active(h) },
                             run[r].already_assigned_group_ids) :
        check_rest_gap(group_templates(g), run[r].min_rest_hours) }

\* The `assignments` list of the response a client receives: a run that
\* raised sends none.
ResponseAssignments(r) ==
    IF run[r].outcome = "AutoAssignResponse" THEN run[r].assignments_created ELSE <<>>

\* C20: a run that ended without a store error reports exactly min(n, m)
\* assignments, n the candidate groups passing the rest-gap check and m the
\* candidate drivers.
C20_CreatedIsMin ==
    \A r \in Runners :
        (/\ run[r].pc \in {"returned", "failed"}
         /\ run[r].outcome \notin {"IntegrityError", "DeadlockDetected"})
        => Len(ResponseAssignments(r)) =
              SetMin({Cardinality(CandidateGroups(r)),
                      Cardinality(run[r].available_drivers)})


(***************************************************************************)
(* Claims about the week a row belongs to.                                 *)
(***************************************************************************)
\* Dates given to get_week_start: four whole weeks.
ProbeDays == 1..28

\* Day-of-week index of a date in the operational week: Saturday = 0.
WeekIndex(d) == (weekday(d) + 2) % 7

\* C21: get_week_start(d) is the Saturday d' with d-6 <= d' <= d and is
\* idempotent; every row in the store or in an open transaction, and the
\* week of every running auto-assign request, has a week_start_date that
\* is a Saturday; the weekly listing for any date of a week returns the
\* week's rows, all of them and no others.
C21_WeekStartNormalized ==
    /\ \A d \in ProbeDays :
          /\ WeekIndex(get_week_start(d)) = 0
          /\ d - 6 <= get_week_start(d) /\ get_week_start(d) <= d
          /\ get_week_start(get_week_start(d)) = get_week_start(d)
    /\ \A a \in assignments \cup UNION { pending[r] : r \in Runners } :
          WeekIndex(a.week_start_date) = 0
    /\ \A r \in Runners :
          run[r].pc # "idle" => WeekIndex(run[r].week_start) = 0
    /\ \A d \in ProbeDays :
          LET listing == get_weekly_assignments(d) IN
          /\ WeekIndex(listing.week_start_date) = 0
          /\ listing.assignments =
                { a \in assignments : d - 6 <= a.week_start_date
                                      /\ a.week_start_date <= d }

\* Rows written by hand and by an auto-assign run for requests that all
\* carried a Wednesday (date 10): both are stored under the Saturday (6).
C21_Witness ==
    /\ \E a \in assignments : a.assigned_by = ManualEditor /\ a.week_start_date = 6
    /\ \E a \in assignments : a.assigned_by \in Runners /\ a.week_start_date = 6


(***************************************************************************)
(* Further claims about trips.                                             *)
(***************************************************************************)
\* The trips of the schedule of a date, in a set of rows.
TripsOn(rows, date) == { t \in rows : t.schedule_date = date }

\* C22: a step taken while the daily schedule of a date is locked leaves
\* the trips of that schedule as they were: none added, changed or deleted.
C22_LockedScheduleFrame ==
    [][\A s \in daily_schedules :
          s.is_locked => TripsOn(trips', s.schedule_date) = TripsOn(trips, s.schedule_date)]_vars

\* A locked schedule that holds a trip while the id sequence still allows
\* another trip: every trip request is put to it and refused.
C22_Witness ==
    \E s \in daily_schedules :
        /\ s.is_locked
        /\ TripsOn(trips, s.schedule_date) # {}
        /\ next_trip_id <= MaxTrips

\* C23: no tanker holds two trips on one date, neither of them cancelled,
\* whose time ranges overlap.
C23_NoDoubleBooking ==
    \A t \in trips, u \in trips :
        (/\ t.id # u.id
         /\ t.tanker_id # None
         /\ t.tanker_id = u.tanker_id
         /\ t.schedule_date = u.schedule_date
         /\ t.status # "cancelled" /\ u.status # "cancelled")
        => ~ Overlap(t.start_time, t.end_time, u.start_time, u.end_time)

\* C24: every trip an on-demand request may add in the current store is,
\* when it carries a tanker, SCHEDULED and accepted without errors by the
\* validator for that tanker and the customer, with the fuel blend the
\* trip stores; a trip added without a tanker is UNASSIGNED and has no
\* driver.
C24_OnDemandCompatible ==
    \A date \in TripDates, request \in OnDemandInputs :
        \A trip \in on_demand_trip(date, request, next_trip_id) :
            IF trip.tanker_id # None
            THEN /\ trip.status = "scheduled"
                 /\ validate_tanker_assignment(trip, TankerById(trip.tanker_id),
                                               CustomerById(trip.customer_id)).errors = <<>>
            ELSE trip.status = "unassigned" /\ trip.driver_id = None

\* C25: a stored trip that has a tanker does not have status UNASSIGNED.
C25_TankerImpliesNotUnassigned ==
    \A t \in trips : t.tanker_id # None => t.status # "unassigned"


NextMirror == AssignNext(Runners, {6}, {8}, BOOLEAN, {13})

SpecMirror == Init /\ [][NextMirror]_vars

\* The (group, driver) pairs of a list of assignments, in order.
Pairs(list) == [i \in DOMAIN list |-> <<list[i].trip_group_id, list[i].driver_id>>]

\* The groups a run has gone through, in order, each with the driver the
\* random choice gave it (None when no driver was eligible): the recorded
\* assignments, then the group in hand when the run raised.
Visited(r) ==
    LET created == Pairs(run[r].assignments_created)
        taken == run[r].already_assigned_driver_ids
                 \cup { created[i][2] : i \in DOMAIN created }
        last == run[r].assigned_driver_ids \ taken
    IN  IF run[r].pc = "failed" /\ run[r].outcome = "ValidationError"
        THEN Append(created, <<run[r].group,
                               IF last = {} THEN None ELSE CHOOSE d \in last : TRUE>>)
        ELSE created

IsPrefix(s, t) == Len(s) <= Len(t) /\ \A i \in DOMAIN s : s[i] = t[i]

\* What a client is told: the pairs under `created` and the entries under
\* `unassigned`, nothing when the run raised.
Reported(r) ==
    [outcome |-> run[r].outcome,
     created |-> Pairs(ResponseAssignments(r)),
     unassigned |-> IF run[r].outcome = "AutoAssignResponse"
                    THEN run[r].unassigned_results ELSE {}]

\* C27: a live run and a dry run that read the same rows for the same week
\* and min_rest_hours and went through the groups in the same order with
\* the same driver choices report the same pairs under `created` and the
\* same groups and reasons under `unassigned`.
C27_DryRunMirrorsLiveRun ==
    \A live \in Runners, dry \in Runners :
        (/\ run[live].pc \in {"returned", "failed"} /\ ~ run[live].dry_run
         /\ run[dry].pc \in {"returned", "failed"} /\ run[dry].dry_run
         /\ run[live].outcome \notin {"IntegrityError", "DeadlockDetected"}
         /\ run[live].week_start = run[dry].week_start
         /\ run[live].min_rest_hours = run[dry].min_rest_hours
         /\ run[live].already_assigned_group_ids = run[dry].already_assigned_group_ids
         /\ run[live].already_assigned_driver_ids = run[dry].already_assigned_driver_ids
         /\ (IsPrefix(Visited(live), Visited(dry)) \/ IsPrefix(Visited(dry), Visited(live))))
        => Reported(live) = Reported(dry)

\* C28: when a run has ended without a store error, every group that was
\* active and had no row for the week when the run read the store is in
\* exactly one of the lists `created` and `unassigned` it reports, no other
\* group is in either, and the two counts add up to the number of those
\* groups.
C28_ListsPartitionCandidates ==
    \A r \in Runners :
        (/\ run[r].pc \in {"returned", "failed"}
         /\ run[r].outcome \notin {"IntegrityError", "DeadlockDetected"})
        => LET candidates == UnassignedGroups({ g \in Groups : group_is_active(g) },
                                              run[r].already_assigned_group_ids)
               created == Reported(r).created
               assigned == { created[i][1] : i \in DOMAIN created }
               unassigned == { e.trip_group : e \in Reported(r).unassigned }
           IN  /\ assigned \cap unassigned = {}
               /\ assigned \cup unassigned = candidates
               /\ Len(created) + Cardinality(Reported(r).unassigned)
                     = Cardinality(candidates)

\* The week's committed rows are the ones run r read plus the ones it
\* created: nothing has changed them since the run committed.
StoreAsLeftBy(r) ==
    LET rows == { a \in assignments : a.week_start_date = run[r].week_start }
    IN  /\ Created(r) \subseteq rows
        /\ { a.trip_group_id : a \in rows } =
              run[r].already_assigned_group_ids \cup { a.trip_group_id : a \in Created(r) }
        /\ { a.driver_id : a \in rows } =
              run[r].already_assigned_driver_ids \cup { a.driver_id : a \in Created(r) }

\* C29: a live run that starts on the store as a completed live run for
\* the same week and min_rest_hours left it has nothing to create: none of
\* the groups it will go through has an eligible driver, and the start
\* leaves the committed rows as they were.
C29_SecondRunCreatesNothing ==
    [][\A first \in Runners, second \in Runners :
          (/\ run[first].pc = "returned" /\ ~ run[first].dry_run
           /\ StoreAsLeftBy(first)
           /\ run[second].pc = "idle" /\ run'[second].pc = "loop"
           /\ ~ run'[second].dry_run
           /\ run'[second].week_start = run[first].week_start
           /\ run'[second].min_rest_hours = run[first].min_rest_hours)
          => /\ assignments' = assignments
             /\ \A g \in run'[second].unassigned_groups :
                   { d \in run'[second].available_drivers :
                       /\ d \notin run'[second].assigned_driver_ids
                       /\ check_rest_gap(group_templates(g),
                                         run'[second].min_rest_hours) } = {}]_vars

\* A live run has returned after creating rows, and a second live run for
\* the same week that read those rows has gone through its loop and
\* returned without creating any.
C29_Witness ==
    \E first \in Runners, second \in Runners :
        /\ run[first].pc = "returned" /\ ~ run[first].dry_run
        /\ Created(first) # {}
        /\ StoreAsLeftBy(first)
        /\ run[second].pc = "returned" /\ ~ run[second].dry_run
        /\ run[second].week_start = run[first].week_start
        /\ run[second].min_rest_hours = run[first].min_rest_hours
        /\ { a.trip_group_id : a \in Created(first) }
              \subseteq run[second].already_assigned_group_ids
        /\ run[second].assignments_created = <<>>


(***************************************************************************)
(* Claims about the templates of a trip group.                             *)
(***************************************************************************)
\* create_trip_group and add_templates_to_group: the request is accepted
\* when every template named is found among the templates of the group's
\* day_of_week.
create_trip_group_accepts(day_of_week, templates) ==
    Cardinality({ t \in templates : t.day_of_week = day_of_week }) = Cardinality(templates)

\* The active templates all have one and the same day_of_week.
OneDay(templates) ==
    \E day \in 0..6 : \A t \in templates : t.is_active => t.day_of_week = day

\* C30: for templates whose active members all have one day_of_week, as
\* for every template set a trip-group request is accepted with, the
\* rest-gap check returns true for the given min_rest_hours and for every
\* value in 8..24, and the eligible list of such a group is empty only
\* when every available driver is already taken.
C30_OneDayGroupPasses ==
    v_out # <<>> =>
        /\ \A day \in 0..6 :
              create_trip_group_accepts(day, v_in.templates) => OneDay(v_in.templates)
        /\ OneDay(v_in.templates) =>
              /\ v_out.result = TRUE
              /\ \A h \in 8..24 : check_rest_gap(v_in.templates, h)
              /\ \A available \in SUBSET Drivers, assigned \in SUBSET Drivers :
                    eligible_drivers(available, assigned, v_in.templates,
                                     v_in.min_rest_hours) = {}
                        => available \ assigned = {}

\* Two Friday templates, the later ending 23:00 and the earlier starting
\* 05:00, checked for 24 hours of rest: the check has passed.
C30_Witness ==
    /\ v_out # <<>>
    /\ v_out.result = TRUE
    /\ v_in.min_rest_hours = 24
    /\ v_in.templates = { RestTemplate(6, 300, 600, TRUE), RestTemplate(6, 840, 1380, TRUE) }
    /\ create_trip_group_accepts(6, v_in.templates)

====
